---- MODULE Spec2Model ----
(***************************************************************************)
(* snap-confine (cmd/snap-confine/snap-confine.c): the launcher's main()   *)
(* and enter_non_classic_execution_environment() as a state machine.  One  *)
(* process per launch; processes interact only through the global lock,    *)
(* the per-snap locks, the registry of preserved mount namespaces and the  *)
(* freezer control groups.                                                 *)
(***************************************************************************)
EXTENDS Integers, Sequences, FiniteSets, TLC

\* ------------------------------------------------------------------ bounds
\* user and group ids range over 0..MaxId; 0 is root
MaxId == 1
\* how many times the environment may turn a preserved namespace stale
MaxStale == 1

\* ------------------------------------------------------- program constants
\* the id of root, as compared against in main()
Root == 0

Ids == 0..MaxId
Procs == {"p1", "p2"}
Snaps == {"snap_a", "snap_b"}
NoProc == "none"

\* outcome of argument parsing and of the validations of main(), in the
\* order in which main() performs them
Inputs == {"ok", "bad_args", "version", "no_instance", "bad_instance", "bad_tag", "bad_base"}
BaseSnaps == {"core", "other"}
Distros == {"core16", "classic"}
TmpValues == {"unset", "/host/tmp", "/tmp"}

\* the setenv call of reset_env that fails (ENOMEM), if any
SetenvFailures == {"none", "PATH", "TMPDIR", "TEMPDIR"}

\* setenv fails only when the system is short of memory
setenv_outcomes(low_memory) == IF low_memory THEN SetenvFailures ELSE {"none"}
HostPath == "/host/path"
CorePath == "/usr/local/sbin:/usr/local/bin:/usr/sbin:/usr/bin:/sbin:/bin:/usr/games:/usr/local/games"

VARIABLES
    pc,          \* pc[p]: the statement launch p executes next
    args,        \* args[p]: what launch p was invoked with (never changes)
    ids,         \* ids[p]: the process credentials (real, effective, saved uid and gid)
    loc,         \* loc[p]: the locals of main() and of the invocation
    env,         \* env[p]: PATH, TMPDIR, TEMPDIR of the process
    mnt,         \* mnt[p]: the mount namespace the process is in
    helper,      \* helper[p]: the helper process has been forked
    log,         \* log[p]: the operations launch p has completed, in order
    done,        \* done[p]: the same operations, as a set
    global_lock, \* holder of the global lock
    snap_lock,   \* snap_lock[s]: holder of the lock of snap s
    ns,          \* ns[s]: the preserved per-snap mount namespace of s
    user_ns,     \* the preserved per-user mount namespaces, as <<snap, uid>>
    freezer,     \* freezer[s]: the processes in the freezer cgroup of s
    host,        \* shared host state set up under the global lock
    sys,         \* the system: feature flag, distribution, AppArmor, build
    stale        \* how many times a namespace was turned stale

vars == <<pc, args, ids, loc, env, mnt, helper, log, done, global_lock, snap_lock,
          ns, user_ns, freezer, host, sys, stale>>

\* --------------------------------------------------------------- helpers
Logged(p, e) == e \in done[p]

Count(p, e) == Cardinality({i \in 1..Len(log[p]) : log[p][i] = e})

\* e1 and then e2 happened in launch p
Before(p, e1, e2) == \E j \in 1..Len(log[p]) :
                        /\ log[p][j] = e2
                        /\ \E i \in 1..(j - 1) : log[p][i] = e1

Terminal == {"exec", "dead", "exit0", "exit1", "absent"}

\* ------------------------------------------------- credentials (syscalls)
\* The process holds CAP_SETUID/CAP_SETGID exactly while its effective uid
\* is root.
privileged(c) == c.euid = Root

\* setegid(g): allowed to a privileged process, or when g is one of the
\* real, effective or saved gid; changes the effective gid only
setegid_allowed(c, g) == privileged(c) \/ g \in {c.rgid, c.egid, c.sgid}
setegid(c, g) == [c EXCEPT !.egid = g]

\* seteuid(u): likewise for the effective uid
seteuid_allowed(c, u) == privileged(c) \/ u \in {c.ruid, c.euid, c.suid}
seteuid(c, u) == [c EXCEPT !.euid = u]

\* setgid(g): a privileged process sets real, effective and saved gid;
\* any other process may only set its effective gid to the real or saved one
setgid_allowed(c, g) == privileged(c) \/ g \in {c.rgid, c.sgid}
setgid(c, g) == IF privileged(c)
                THEN [c EXCEPT !.rgid = g, !.egid = g, !.sgid = g]
                ELSE [c EXCEPT !.egid = g]

\* setuid(u): likewise for the uid
setuid_allowed(c, u) == privileged(c) \/ u \in {c.ruid, c.suid}
setuid(c, u) == IF privileged(c)
                THEN [c EXCEPT !.ruid = u, !.euid = u, !.suid = u]
                ELSE [c EXCEPT !.euid = u]

\* The credentials a launch can start with: the invoker's real ids; the
\* effective ids are the invoker's, or root's where the setuid/setgid bit of
\* the binary took effect; execve copies the effective ids to the saved ids.
Creds(ru, rg, setuid_root, setgid_root) ==
    [ruid |-> ru, euid |-> IF setuid_root THEN Root ELSE ru,
                  suid |-> IF setuid_root THEN Root ELSE ru,
     rgid |-> rg, egid |-> IF setgid_root THEN Root ELSE rg,
                  sgid |-> IF setgid_root THEN Root ELSE rg]

StartCreds == {Creds(ru, rg, su, sg) : ru \in Ids, rg \in Ids, su \in BOOLEAN, sg \in BOOLEAN}

\* the dynamic linker's secure-execution mode (AT_SECURE)
at_secure(c) == c.euid # c.ruid \/ c.egid # c.rgid

\* ------------------------------------------------------------- stepping
Goto(p, l) == pc' = [pc EXCEPT ![p] = l]
Log(p, e) == /\ log' = [log EXCEPT ![p] = Append(@, e)]
             /\ done' = [done EXCEPT ![p] = @ \cup {e}]
Loc(p, f, v) == loc' = [loc EXCEPT ![p][f] = v]

\* process exit gives up every lock the process holds
ReleasedGlobal(p) == IF global_lock = p THEN NoProc ELSE global_lock
ReleasedSnap(p) == [s \in Snaps |-> IF snap_lock[s] = p THEN NoProc ELSE snap_lock[s]]

shared == <<ns, user_ns, host, stale>>
locks == <<global_lock, snap_lock>>
fixed == <<args, sys>>

\* die(): message, exit(1).  Also the fate of a launch killed by a signal.
Exit(p, how) == /\ Goto(p, how)
                /\ global_lock' = ReleasedGlobal(p)
                /\ snap_lock' = ReleasedSnap(p)
                /\ freezer' = [s \in Snaps |-> freezer[s] \ {p}]

Live(p) == pc[p] \notin Terminal

\* -------------------------------------------------------------- main()
\* main() that lets a security tag it should refuse pass
main_validate_any_tag(p) ==
    /\ pc[p] = "start"
    /\ IF args[p].input \in {"ok", "bad_tag"}
       THEN Goto(p, "getresid") /\ Log(p, "validated") /\ UNCHANGED <<locks, freezer>>
       ELSE IF args[p].input = "version"
       THEN Exit(p, "exit0") /\ Log(p, "version")
       ELSE Exit(p, "dead") /\ Log(p, "die")
    /\ UNCHANGED <<ids, loc, env, mnt, helper, shared, fixed>>

\* lines 113-140: parse the arguments, answer a version query, read and
\* validate SNAP_INSTANCE_NAME, the security tag and the base snap name
main_validate(p) ==
    /\ pc[p] = "start"
    /\ IF args[p].input = "ok"
       THEN Goto(p, "getresid") /\ Log(p, "validated") /\ UNCHANGED <<locks, freezer>>
       ELSE IF args[p].input = "version"
       THEN Exit(p, "exit0") /\ Log(p, "version")
       ELSE Exit(p, "dead") /\ Log(p, "die")
    /\ UNCHANGED <<ids, loc, env, mnt, helper, shared, fixed>>

\* lines 148-151: getresuid, getresgid
main_getresid(p) ==
    /\ pc[p] = "getresid"
    /\ loc' = [loc EXCEPT ![p].real_uid = ids[p].ruid,
                          ![p].effective_uid = ids[p].euid,
                          ![p].saved_uid = ids[p].suid,
                          ![p].real_gid = ids[p].rgid,
                          ![p].effective_gid = ids[p].egid,
                          ![p].saved_gid = ids[p].sgid]
    /\ Goto(p, "initial_drop")
    /\ Log(p, "getresid")
    /\ UNCHANGED <<ids, env, mnt, helper, locks, freezer, shared, fixed>>

\* main() without the initial drop of the group privilege
main_initial_drop_missing(p) ==
    /\ pc[p] = "initial_drop"
    /\ Goto(p, "root_check") /\ Log(p, "no_setegid_start")
    /\ UNCHANGED <<ids, locks, freezer, loc, env, mnt, helper, shared, fixed>>

\* lines 158-162: temporarily drop the group privilege
main_initial_drop(p) ==
    /\ pc[p] = "initial_drop"
    /\ IF loc[p].effective_gid = Root /\ loc[p].real_gid # Root
       THEN IF setegid_allowed(ids[p], loc[p].real_gid)
            THEN /\ ids' = [ids EXCEPT ![p] = setegid(@, loc[p].real_gid)]
                 /\ Goto(p, "root_check") /\ Log(p, "setegid_start") /\ UNCHANGED <<locks, freezer>>
            ELSE Exit(p, "dead") /\ Log(p, "die") /\ UNCHANGED ids
       ELSE Goto(p, "root_check") /\ Log(p, "no_setegid_start") /\ UNCHANGED <<ids, locks, freezer>>
    /\ UNCHANGED <<loc, env, mnt, helper, shared, fixed>>

\* secure_getenv("SNAP_CONFINE_NO_ROOT"): NULL in secure-execution mode
secure_getenv_no_root(p) == IF at_secure(args[p].start_creds) THEN FALSE ELSE args[p].no_root

\* lines 163-169: refuse to run without root, unless built with
\* CAPS_OVER_SETUID or told not to care by the test environment
main_root_check(p) ==
    /\ pc[p] = "root_check"
    /\ IF ~sys.caps_over_setuid /\ ids[p].euid # Root /\ ~secure_getenv_no_root(p)
       THEN Exit(p, "dead") /\ Log(p, "die")
       ELSE Goto(p, "apparmor") /\ Log(p, "root_checked") /\ UNCHANGED <<locks, freezer>>
    /\ UNCHANGED <<ids, loc, env, mnt, helper, shared, fixed>>

\* lines 181-192: sc_init_apparmor_support and the refusal to run
\* unconfined with elevated permissions
main_apparmor(p) ==
    /\ pc[p] = "apparmor"
    /\ IF /\ ~sys.aa_is_confined
          /\ sys.aa_mode # "not_applicable"
          /\ ids[p].ruid # Root
          /\ ids[p].euid = Root
       THEN Exit(p, "dead") /\ Log(p, "die")
       ELSE Goto(p, "dispatch") /\ Log(p, "apparmor_init") /\ UNCHANGED <<locks, freezer>>
    /\ UNCHANGED <<ids, loc, env, mnt, helper, shared, fixed>>

\* lines 204-209: only a process with effective uid root sets up the
\* execution environment
main_dispatch(p) ==
    /\ pc[p] = "dispatch"
    /\ IF ids[p].euid = Root
       THEN IF args[p].classic_confinement
            THEN Goto(p, "classic_env")
            ELSE Goto(p, "reassociate")
       ELSE Goto(p, "setup_user_data")
    /\ UNCHANGED <<ids, loc, env, mnt, helper, log, done, locks, freezer, shared, fixed>>

\* lines 258-267
enter_classic_execution_environment(p) ==
    /\ pc[p] = "classic_env"
    /\ Goto(p, "temp_setegid")
    /\ Log(p, "classic_env")
    /\ UNCHANGED <<ids, loc, env, mnt, helper, locks, freezer, shared, fixed>>

\* ------------------------------------------- locks and namespace registry
\* sc_lock_global, sc_lock_snap: block until the lock is free
lock_free(holder) == holder = NoProc

\* sc_join_preserved_ns: joins the preserved namespace of the snap, or
\* reports ESRCH when there is none or when it is stale
join_result(s) == IF ns[s].state = "preserved" THEN "joined" ELSE "ESRCH"

\* a stale namespace is discarded, and the per-user namespaces with it
NoNs == [state |-> "absent", populated |-> FALSE, by |-> NoProc]
discarded(s) == [ns EXCEPT ![s] = NoNs]
user_discarded(s) == {e \in user_ns : e[1] # s}

\* sc_join_preserved_per_user_ns: likewise, for the pair of snap and real uid
user_join_result(s, u) == IF <<s, u>> \in user_ns THEN "joined" ELSE "ESRCH"

\* sc_should_use_normal_mode: legacy mode only for the core base on core16
sc_should_use_normal_mode(distro, base) == distro # "core16" \/ base # "core"

\* sc_feature_enabled(SC_PER_USER_MOUNT_NAMESPACE)
sc_feature_enabled_per_user == sys.per_user_mount_namespace

\* ------------------------ enter_non_classic_execution_environment()
\* line 283
sc_reassociate_with_pid1_mount_ns(p) ==
    /\ pc[p] = "reassociate"
    /\ mnt' = [mnt EXCEPT ![p] = "pid1"]
    /\ Goto(p, "lock_global")
    /\ Log(p, "reassociate")
    /\ UNCHANGED <<ids, loc, env, helper, locks, freezer, shared, fixed>>

\* a global lock that does not wait for its holder
sc_lock_global_not_exclusive(p) ==
    /\ pc[p] = "lock_global"
    /\ global_lock' = p
    /\ Goto(p, "ensure_shared")
    /\ Log(p, "lock_global")
    /\ UNCHANGED <<ids, loc, env, mnt, helper, snap_lock, freezer, shared, fixed>>

\* line 285
sc_lock_global(p) ==
    /\ pc[p] = "lock_global"
    /\ lock_free(global_lock)
    /\ global_lock' = p
    /\ Goto(p, "ensure_shared")
    /\ Log(p, "lock_global")
    /\ UNCHANGED <<ids, loc, env, mnt, helper, snap_lock, freezer, shared, fixed>>

\* line 289
sc_ensure_shared_snap_mount(p) ==
    /\ pc[p] = "ensure_shared"
    /\ host' = [host EXCEPT !.snap_mount_shared = TRUE]
    /\ Goto(p, "init_mount_ns")
    /\ Log(p, "ensure_shared")
    /\ UNCHANGED <<ids, loc, env, mnt, helper, locks, freezer, ns, user_ns, stale, fixed>>

\* line 291
sc_initialize_mount_ns(p) ==
    /\ pc[p] = "init_mount_ns"
    /\ host' = [host EXCEPT !.ns_dir_private = TRUE]
    /\ Goto(p, "unlock_global")
    /\ Log(p, "init_mount_ns")
    /\ UNCHANGED <<ids, loc, env, mnt, helper, locks, freezer, ns, user_ns, stale, fixed>>

\* a launch that goes on without giving up the global lock
sc_unlock_global_missing(p) ==
    /\ pc[p] = "unlock_global"
    /\ Goto(p, "open_helpers")
    /\ Log(p, "unlock_global")
    /\ UNCHANGED <<ids, loc, env, mnt, helper, locks, freezer, shared, fixed>>

\* line 292
sc_unlock_global(p) ==
    /\ pc[p] = "unlock_global"
    /\ global_lock' = NoProc
    /\ Goto(p, "open_helpers")
    /\ Log(p, "unlock_global")
    /\ UNCHANGED <<ids, loc, env, mnt, helper, snap_lock, freezer, shared, fixed>>

\* lines 296-299: sc_open_snap_update_ns, sc_open_snap_discard_ns
sc_open_helpers(p) ==
    /\ pc[p] = "open_helpers"
    /\ Loc(p, "helper_fds", TRUE)
    /\ Goto(p, "lock_snap")
    /\ Log(p, "open_helpers")
    /\ UNCHANGED <<ids, env, mnt, helper, locks, freezer, shared, fixed>>

\* sc_lock_snap that does not wait for the holder of the lock
sc_lock_snap_not_exclusive(p) ==
    /\ pc[p] = "lock_snap"
    /\ snap_lock' = [snap_lock EXCEPT ![args[p].snap_instance] = p]
    /\ Goto(p, "classify")
    /\ Log(p, "lock_snap")
    /\ UNCHANGED <<ids, loc, env, mnt, helper, global_lock, freezer, shared, fixed>>

\* line 302
sc_lock_snap(p) ==
    /\ pc[p] = "lock_snap"
    /\ lock_free(snap_lock[args[p].snap_instance])
    /\ snap_lock' = [snap_lock EXCEPT ![args[p].snap_instance] = p]
    /\ Goto(p, "classify")
    /\ Log(p, "lock_snap")
    /\ UNCHANGED <<ids, loc, env, mnt, helper, global_lock, freezer, shared, fixed>>

\* a launch that forks its helper without having probed for normal mode
sc_classify_skipped(p) ==
    /\ pc[p] = "classify"
    /\ Goto(p, "fork_helper")
    /\ Log(p, "open_mount_ns")
    /\ UNCHANGED <<ids, loc, env, mnt, helper, locks, freezer, shared, fixed>>

\* lines 304-310: sc_open_mount_ns, then the probe for normal mode
sc_classify(p) ==
    /\ pc[p] = "classify"
    /\ Loc(p, "is_normal_mode", sc_should_use_normal_mode(sys.distro, args[p].base_snap_name))
    /\ Goto(p, "fork_helper")
    /\ Log(p, "classify")
    /\ UNCHANGED <<ids, env, mnt, helper, locks, freezer, shared, fixed>>

\* line 315
sc_fork_helper(p) ==
    /\ pc[p] = "fork_helper"
    /\ helper' = [helper EXCEPT ![p] = TRUE]
    /\ Goto(p, "join")
    /\ Log(p, "fork_helper")
    /\ UNCHANGED <<ids, loc, env, mnt, locks, freezer, shared, fixed>>

\* a join that gives up the per-snap lock when it finds nothing to join
sc_join_preserved_ns_unlocks(p) ==
    /\ pc[p] = "join"
    /\ LET s == args[p].snap_instance
           r == join_result(s)
       IN /\ Loc(p, "retval", r)
          /\ IF r = "joined"
             THEN /\ mnt' = [mnt EXCEPT ![p] = IF ns[s].populated THEN "snap_joined"
                                                ELSE "snap_half_built"]
                  /\ Goto(p, "fixups")
                  /\ Log(p, "join_ok")
                  /\ UNCHANGED <<ns, user_ns, snap_lock>>
             ELSE /\ ns' = discarded(s)
                  /\ user_ns' = user_discarded(s)
                  /\ snap_lock' = [snap_lock EXCEPT ![s] = NoProc]
                  /\ Goto(p, "unshare")
                  /\ Log(p, "join_esrch")
                  /\ UNCHANGED mnt
    /\ UNCHANGED <<ids, env, helper, global_lock, freezer, host, stale, fixed>>

\* a join whose ESRCH is not followed by construction
sc_join_preserved_ns_no_construct(p) ==
    /\ pc[p] = "join"
    /\ LET s == args[p].snap_instance
           r == join_result(s)
       IN /\ Loc(p, "retval", r)
          /\ IF r = "joined"
             THEN /\ mnt' = [mnt EXCEPT ![p] = IF ns[s].populated THEN "snap_joined"
                                                ELSE "snap_half_built"]
                  /\ Log(p, "join_ok")
                  /\ UNCHANGED <<ns, user_ns>>
             ELSE /\ ns' = discarded(s)
                  /\ user_ns' = user_discarded(s)
                  /\ Log(p, "join_esrch")
                  /\ UNCHANGED mnt
          /\ Goto(p, "fixups")
    /\ UNCHANGED <<ids, env, helper, locks, freezer, host, stale, fixed>>

\* lines 316-318
sc_join_preserved_ns(p) ==
    /\ pc[p] = "join"
    /\ LET s == args[p].snap_instance
           r == join_result(s)
       IN /\ Loc(p, "retval", r)
          /\ IF r = "joined"
             THEN /\ mnt' = [mnt EXCEPT ![p] = IF ns[s].populated THEN "snap_joined"
                                                ELSE "snap_half_built"]
                  /\ Goto(p, "fixups")
                  /\ Log(p, "join_ok")
                  /\ UNCHANGED <<ns, user_ns>>
             ELSE /\ ns' = discarded(s)
                  /\ user_ns' = user_discarded(s)
                  /\ Goto(p, "unshare")
                  /\ Log(p, "join_esrch")
                  /\ UNCHANGED mnt
    /\ UNCHANGED <<ids, env, helper, locks, freezer, host, stale, fixed>>

\* lines 322-325
unshare_per_snap(p) ==
    /\ pc[p] = "unshare"
    /\ mnt' = [mnt EXCEPT ![p] = "snap_unshared"]
    /\ Goto(p, "populate")
    /\ Log(p, "unshare")
    /\ UNCHANGED <<ids, loc, env, helper, locks, freezer, shared, fixed>>

\* construction that goes on to preserve without populating
sc_populate_mount_ns_skipped(p) ==
    /\ pc[p] = "populate"
    /\ Goto(p, "preserve")
    /\ Log(p, "populate")
    /\ UNCHANGED <<ids, loc, env, mnt, helper, locks, freezer, shared, fixed>>

\* line 326
sc_populate_mount_ns(p) ==
    /\ pc[p] = "populate"
    /\ mnt' = [mnt EXCEPT ![p] = "snap_populated"]
    /\ Goto(p, "preserve")
    /\ Log(p, "populate")
    /\ UNCHANGED <<ids, loc, env, helper, locks, freezer, shared, fixed>>

\* line 329: the namespace the process is in becomes the preserved one
sc_preserve_populated_mount_ns(p) ==
    /\ pc[p] = "preserve"
    /\ ns' = [ns EXCEPT ![args[p].snap_instance] =
                 [state |-> "preserved", populated |-> (mnt[p] = "snap_populated"), by |-> p]]
    /\ Goto(p, "fixups")
    /\ Log(p, "preserve")
    /\ UNCHANGED <<ids, loc, env, mnt, helper, locks, freezer, user_ns, host, stale, fixed>>

\* fixups after which the per-user namespace is never set up
sc_maybe_fixup_skips_user(p) ==
    /\ pc[p] = "fixups"
    /\ Goto(p, "raise_egid")
    /\ Log(p, "fixups")
    /\ UNCHANGED <<ids, loc, env, mnt, helper, locks, freezer, shared, fixed>>

\* lines 335-339: sc_maybe_fixup_permissions, sc_maybe_fixup_udev; user
\* mount profiles do not apply to root
sc_maybe_fixup(p) ==
    /\ pc[p] = "fixups"
    /\ IF loc[p].real_uid # Root THEN Goto(p, "join_user") ELSE Goto(p, "raise_egid")
    /\ Log(p, "fixups")
    /\ UNCHANGED <<ids, loc, env, mnt, helper, locks, freezer, shared, fixed>>

\* lines 341-342
sc_join_preserved_per_user_ns(p) ==
    /\ pc[p] = "join_user"
    /\ LET r == user_join_result(args[p].snap_instance, ids[p].ruid)
       IN /\ Loc(p, "retval_user", r)
          /\ IF r = "joined"
             THEN /\ mnt' = [mnt EXCEPT ![p] = "user_joined"]
                  /\ Goto(p, "raise_egid")
                  /\ Log(p, "user_join_ok")
             ELSE /\ Goto(p, "unshare_user")
                  /\ Log(p, "user_join_esrch")
                  /\ UNCHANGED mnt
    /\ UNCHANGED <<ids, env, helper, locks, freezer, shared, fixed>>

\* lines 343-346
unshare_per_user(p) ==
    /\ pc[p] = "unshare_user"
    /\ mnt' = [mnt EXCEPT ![p] = "user_unshared"]
    /\ Goto(p, "setup_user_mounts")
    /\ Log(p, "user_unshare")
    /\ UNCHANGED <<ids, loc, env, helper, locks, freezer, shared, fixed>>

\* line 347
sc_setup_user_mounts(p) ==
    /\ pc[p] = "setup_user_mounts"
    /\ mnt' = [mnt EXCEPT ![p] = "user_populated"]
    /\ Goto(p, "preserve_user")
    /\ Log(p, "user_setup_mounts")
    /\ UNCHANGED <<ids, loc, env, helper, locks, freezer, shared, fixed>>

\* preservation of the per-user namespace that ignores the feature flag
sc_preserve_populated_per_user_mount_ns_always(p) ==
    /\ pc[p] = "preserve_user"
    /\ user_ns' = user_ns \cup {<<args[p].snap_instance, ids[p].ruid>>}
    /\ Log(p, "user_preserve")
    /\ Goto(p, "raise_egid")
    /\ UNCHANGED <<ids, loc, env, mnt, helper, locks, freezer, ns, host, stale, fixed>>

\* lines 354-358
sc_preserve_populated_per_user_mount_ns(p) ==
    /\ pc[p] = "preserve_user"
    /\ IF sc_feature_enabled_per_user
       THEN /\ user_ns' = user_ns \cup {<<args[p].snap_instance, ids[p].ruid>>}
            /\ Log(p, "user_preserve")
       ELSE /\ UNCHANGED user_ns
            /\ Log(p, "user_not_preserve")
    /\ Goto(p, "raise_egid")
    /\ UNCHANGED <<ids, loc, env, mnt, helper, locks, freezer, ns, host, stale, fixed>>

\* lines 364-369: temporarily raise the effective gid for the freezer
raise_egid(p) ==
    /\ pc[p] = "raise_egid"
    /\ IF ids[p].egid # Root /\ loc[p].saved_gid = Root
       THEN IF setegid_allowed(ids[p], Root)
            THEN /\ ids' = [ids EXCEPT ![p] = setegid(@, Root)]
                 /\ Goto(p, "freezer_join") /\ Log(p, "setegid_root")
                 /\ UNCHANGED <<locks, freezer>>
            ELSE Exit(p, "dead") /\ Log(p, "die") /\ UNCHANGED ids
       ELSE Goto(p, "freezer_join") /\ Log(p, "no_setegid_root")
            /\ UNCHANGED <<ids, locks, freezer>>
    /\ UNCHANGED <<loc, env, mnt, helper, shared, fixed>>

\* a freezer join that adds no process to the group
sc_cgroup_freezer_join_nobody(p) ==
    /\ pc[p] = "freezer_join"
    /\ Goto(p, "lower_egid")
    /\ Log(p, "freezer_join")
    /\ UNCHANGED <<ids, loc, env, mnt, helper, locks, freezer, shared, fixed>>

\* line 370
sc_cgroup_freezer_join(p) ==
    /\ pc[p] = "freezer_join"
    /\ freezer' = [freezer EXCEPT ![args[p].snap_instance] = @ \cup {p}]
    /\ Goto(p, "lower_egid")
    /\ Log(p, "freezer_join")
    /\ UNCHANGED <<ids, loc, env, mnt, helper, locks, shared, fixed>>

\* a launch that leaves its effective gid raised after the freezer join
lower_egid_missing(p) ==
    /\ pc[p] = "lower_egid"
    /\ Goto(p, "unlock_snap")
    /\ Log(p, "no_setegid_real")
    /\ UNCHANGED <<ids, loc, env, mnt, helper, locks, freezer, shared, fixed>>

\* lines 371-375
lower_egid(p) ==
    /\ pc[p] = "lower_egid"
    /\ IF ids[p].euid = Root /\ loc[p].real_gid # Root
       THEN IF setegid_allowed(ids[p], loc[p].real_gid)
            THEN /\ ids' = [ids EXCEPT ![p] = setegid(@, loc[p].real_gid)]
                 /\ Goto(p, "unlock_snap") /\ Log(p, "setegid_real")
                 /\ UNCHANGED <<locks, freezer>>
            ELSE Exit(p, "dead") /\ Log(p, "die") /\ UNCHANGED ids
       ELSE Goto(p, "unlock_snap") /\ Log(p, "no_setegid_real")
            /\ UNCHANGED <<ids, locks, freezer>>
    /\ UNCHANGED <<loc, env, mnt, helper, shared, fixed>>

\* a launch that goes on without giving up the per-snap lock
sc_unlock_snap_missing(p) ==
    /\ pc[p] = "unlock_snap"
    /\ Goto(p, "close_mount_ns")
    /\ Log(p, "unlock_snap")
    /\ UNCHANGED <<ids, loc, env, mnt, helper, locks, freezer, shared, fixed>>

\* line 377
sc_unlock_snap(p) ==
    /\ pc[p] = "unlock_snap"
    /\ snap_lock' = [snap_lock EXCEPT ![args[p].snap_instance] = NoProc]
    /\ Goto(p, "close_mount_ns")
    /\ Log(p, "unlock_snap")
    /\ UNCHANGED <<ids, loc, env, mnt, helper, global_lock, freezer, shared, fixed>>

\* a return right after the namespace is closed, without the reset of the
\* environment and without the device cgroup
sc_close_mount_ns_returns(p) ==
    /\ pc[p] = "close_mount_ns"
    /\ Goto(p, "temp_setegid")
    /\ Log(p, "close_mount_ns")
    /\ UNCHANGED <<ids, loc, env, mnt, helper, locks, freezer, shared, fixed>>

\* line 379
sc_close_mount_ns(p) ==
    /\ pc[p] = "close_mount_ns"
    /\ Goto(p, "reset_env")
    /\ Log(p, "close_mount_ns")
    /\ UNCHANGED <<ids, loc, env, mnt, helper, locks, freezer, shared, fixed>>

\* lines 387-396: the result of setenv("PATH", ...) is not looked at
setenv_PATH(e, failed) == IF failed = "PATH" THEN e ELSE [e EXCEPT !.PATH = CorePath]

\* lines 401-402: one turn of the loop over TMPDIR and TEMPDIR
setenv_tmpd(e, name, failed) == IF failed = name THEN e ELSE [e EXCEPT ![name] = "/tmp"]

\* lines 386-407: PATH, then TMPDIR and TEMPDIR; a failed setenv of either
\* of the two is fatal (line 403) and ends the loop
reset_env(p) ==
    /\ pc[p] = "reset_env"
    /\ \E failed \in setenv_outcomes(sys.low_memory) :
       LET e1 == setenv_PATH(env[p], failed)
           e2 == setenv_tmpd(e1, "TMPDIR", failed)
           e3 == IF failed = "TMPDIR" THEN e2 ELSE setenv_tmpd(e2, "TEMPDIR", failed)
       IN /\ env' = [env EXCEPT ![p] = e3]
          /\ IF failed \in {"TMPDIR", "TEMPDIR"}
             THEN Exit(p, "dead") /\ Log(p, "die")
             ELSE Goto(p, "udev") /\ Log(p, "reset_env")
                  /\ UNCHANGED <<locks, freezer>>
    /\ UNCHANGED <<ids, loc, mnt, helper, shared, fixed>>

\* lines 408-410: snappy_udev_init, setup_devices_cgroup, snappy_udev_cleanup
setup_devices_cgroup(p) ==
    /\ pc[p] = "udev"
    /\ Goto(p, "temp_setegid")
    /\ Log(p, "devices_cgroup")
    /\ UNCHANGED <<ids, loc, env, mnt, helper, locks, freezer, shared, fixed>>

\* ----------------------------------------------------- main(), continued
\* line 212: setegid(real_gid)
temp_setegid(p) ==
    /\ pc[p] = "temp_setegid"
    /\ IF setegid_allowed(ids[p], loc[p].real_gid)
       THEN /\ ids' = [ids EXCEPT ![p] = setegid(@, loc[p].real_gid)]
            /\ Goto(p, "temp_seteuid") /\ Log(p, "temp_setegid")
            /\ UNCHANGED <<locks, freezer>>
       ELSE Exit(p, "dead") /\ Log(p, "die") /\ UNCHANGED ids
    /\ UNCHANGED <<loc, env, mnt, helper, shared, fixed>>

\* line 213: seteuid(real_uid)
temp_seteuid(p) ==
    /\ pc[p] = "temp_seteuid"
    /\ IF seteuid_allowed(ids[p], loc[p].real_uid)
       THEN /\ ids' = [ids EXCEPT ![p] = seteuid(@, loc[p].real_uid)]
            /\ Goto(p, "temp_verify") /\ Log(p, "temp_seteuid")
            /\ UNCHANGED <<locks, freezer>>
       ELSE Exit(p, "dead") /\ Log(p, "die") /\ UNCHANGED ids
    /\ UNCHANGED <<loc, env, mnt, helper, shared, fixed>>

\* lines 215-216: the two conditions under which main() dies with
\* "dropping privs did not work"
temp_drop_did_not_work(c, real_uid, real_gid) ==
    \/ real_gid # Root /\ c.euid = Root
    \/ real_uid # Root /\ c.egid = Root

temp_verify(p) ==
    /\ pc[p] = "temp_verify"
    /\ IF temp_drop_did_not_work(ids[p], loc[p].real_uid, loc[p].real_gid)
       THEN Exit(p, "dead") /\ Log(p, "die_temp_drop")
       ELSE Goto(p, "setup_user_data") /\ Log(p, "temp_verified")
            /\ UNCHANGED <<locks, freezer>>
    /\ UNCHANGED <<ids, loc, env, mnt, helper, shared, fixed>>

\* line 219
setup_user_data(p) ==
    /\ pc[p] = "setup_user_data"
    /\ Goto(p, "aa_onexec")
    /\ Log(p, "setup_user_data")
    /\ UNCHANGED <<ids, loc, env, mnt, helper, locks, freezer, shared, fixed>>

\* line 224
sc_maybe_aa_change_onexec(p) ==
    /\ pc[p] = "aa_onexec"
    /\ Loc(p, "aa_onexec", TRUE)
    /\ Goto(p, "seccomp")
    /\ Log(p, "aa_change_onexec")
    /\ UNCHANGED <<ids, env, mnt, helper, locks, freezer, shared, fixed>>

\* lines 225-236: the seccomp profiles, then SNAP_COOKIE
sc_apply_seccomp_profile(p) ==
    /\ pc[p] = "seccomp"
    /\ Loc(p, "seccomp", TRUE)
    /\ Goto(p, "final_setgid")
    /\ Log(p, "seccomp")
    /\ UNCHANGED <<ids, env, mnt, helper, locks, freezer, shared, fixed>>

\* line 238: the permanent drop is entered when the effective uid is root
permanent_drop_entered(c) == c.euid = Root

\* lines 238-241: setgid(real_gid), inside the permanent drop
final_setgid(p) ==
    /\ pc[p] = "final_setgid"
    /\ IF permanent_drop_entered(ids[p])
       THEN IF setgid_allowed(ids[p], loc[p].real_gid)
            THEN /\ ids' = [ids EXCEPT ![p] = setgid(@, loc[p].real_gid)]
                 /\ Goto(p, "final_setuid") /\ Log(p, "final_setgid")
                 /\ UNCHANGED <<locks, freezer>>
            ELSE Exit(p, "dead") /\ Log(p, "die") /\ UNCHANGED ids
       ELSE Goto(p, "execv") /\ Log(p, "no_final_drop")
            /\ UNCHANGED <<ids, locks, freezer>>
    /\ UNCHANGED <<loc, env, mnt, helper, shared, fixed>>

\* line 242: setuid(real_uid)
final_setuid(p) ==
    /\ pc[p] = "final_setuid"
    /\ IF setuid_allowed(ids[p], loc[p].real_uid)
       THEN /\ ids' = [ids EXCEPT ![p] = setuid(@, loc[p].real_uid)]
            /\ Goto(p, "final_verify") /\ Log(p, "final_setuid")
            /\ UNCHANGED <<locks, freezer>>
       ELSE Exit(p, "dead") /\ Log(p, "die") /\ UNCHANGED ids
    /\ UNCHANGED <<loc, env, mnt, helper, shared, fixed>>

\* lines 244-245: the two conditions under which main() dies with
\* "permanently dropping privs did not work"
permanent_drop_did_not_work(c, real_uid, real_gid) ==
    \/ real_gid # Root /\ (c.ruid = Root \/ c.euid = Root)
    \/ real_uid # Root /\ (c.rgid = Root \/ c.egid = Root)

final_verify(p) ==
    /\ pc[p] = "final_verify"
    /\ IF permanent_drop_did_not_work(ids[p], loc[p].real_uid, loc[p].real_gid)
       THEN Exit(p, "dead") /\ Log(p, "die_permanent_drop")
       ELSE Goto(p, "execv") /\ Log(p, "final_verified")
            /\ UNCHANGED <<locks, freezer>>
    /\ UNCHANGED <<ids, loc, env, mnt, helper, shared, fixed>>

\* execve: the saved ids of the new image are its effective ids
execve_creds(c) == [c EXCEPT !.suid = c.euid, !.sgid = c.egid]

\* lines 248-255: execv replaces the process image; when it fails main()
\* returns 1.  exec_creds keeps the credentials execv was called with.
main_execv(p) ==
    /\ pc[p] = "execv"
    /\ \/ /\ Loc(p, "exec_creds", ids[p])
          /\ ids' = [ids EXCEPT ![p] = execve_creds(@)]
          /\ Goto(p, "exec") /\ Log(p, "execv")
          /\ UNCHANGED <<locks, freezer>>
       \/ /\ Exit(p, "exit1") /\ Log(p, "execv_failed")
          /\ UNCHANGED <<ids, loc>>
    /\ UNCHANGED <<env, mnt, helper, shared, fixed>>

\* die() in any of the operations above, or a fatal signal
die(p) ==
    /\ Live(p)
    /\ Exit(p, "dead")
    /\ Log(p, "die")
    /\ UNCHANGED <<ids, loc, env, mnt, helper, shared, fixed>>

\* ----------------------------------------------------------- environment
\* a preserved namespace turns stale (the snap was refreshed or removed)
make_stale(s) ==
    /\ ns[s].state = "preserved"
    /\ stale < MaxStale
    /\ ns' = [ns EXCEPT ![s].state = "stale"]
    /\ stale' = stale + 1
    /\ UNCHANGED <<pc, args, ids, loc, env, mnt, helper, log, done, locks, freezer,
                   user_ns, host, sys>>

\* ------------------------------------------------------------ initial state
NoCreds == Creds(Root, Root, FALSE, FALSE)

Loc0 == [real_uid |-> Root, effective_uid |-> Root, saved_uid |-> Root,
         real_gid |-> Root, effective_gid |-> Root, saved_gid |-> Root,
         helper_fds |-> FALSE, is_normal_mode |-> FALSE,
         retval |-> "unset", retval_user |-> "unset",
         aa_onexec |-> FALSE, seccomp |-> FALSE, exec_creds |-> NoCreds]

Args(s, i, c, b, n, cr) ==
    [snap_instance |-> s, input |-> i, classic_confinement |-> c,
     base_snap_name |-> b, no_root |-> n, start_creds |-> cr]

Sys(f, d, conf, mode, caps, mem) ==
    [per_user_mount_namespace |-> f, distro |-> d, aa_is_confined |-> conf,
     aa_mode |-> mode, caps_over_setuid |-> caps, low_memory |-> mem]

InitCommon ==
    /\ loc = [p \in Procs |-> Loc0]
    /\ mnt = [p \in Procs |-> "initial"]
    /\ helper = [p \in Procs |-> FALSE]
    /\ log = [p \in Procs |-> <<>>]
    /\ done = [p \in Procs |-> {}]
    /\ global_lock = NoProc
    /\ snap_lock = [s \in Snaps |-> NoProc]
    /\ ns = [s \in Snaps |-> NoNs]
    /\ user_ns = {}
    /\ freezer = [s \in Snaps |-> {}]
    /\ host = [snap_mount_shared |-> FALSE, ns_dir_private |-> FALSE]
    /\ stale = 0

\* Concurrent launches by the installed setuid and setgid root binary with
\* valid arguments, of the same snap or of different snaps, on a system
\* that is not short of memory.  The launches
\* are interchangeable, so the first one is of snap_a and not classic; a
\* classic launch makes no use of its snap, so it is of snap_a as well.
Init ==
    /\ InitCommon
    /\ pc = [p \in Procs |-> "start"]
    /\ \E f \in BOOLEAN : sys = Sys(f, "classic", TRUE, "enforce", FALSE, FALSE)
    /\ \E u \in [Procs -> Ids], s \in [Procs -> Snaps], c \in [Procs -> BOOLEAN] :
          /\ s["p1"] = "snap_a"
          /\ c["p1"] = FALSE
          /\ c["p2"] => s["p2"] = "snap_a"
          /\ ids = [p \in Procs |-> Creds(u[p], u[p], TRUE, TRUE)]
          /\ args = [p \in Procs |-> Args(s[p], "ok", c[p], "core", FALSE, ids[p])]
          /\ env = [p \in Procs |-> [PATH |-> HostPath, TMPDIR |-> "/host/tmp", TEMPDIR |-> "unset"]]

\* One launch with any arguments, any credentials, on any system; the
\* system is short of memory, so a setenv call may fail.
InitOne ==
    /\ InitCommon
    /\ pc = [p \in Procs |-> IF p = "p1" THEN "start" ELSE "absent"]
    /\ \E f \in BOOLEAN, conf \in BOOLEAN, mode \in {"enforce", "not_applicable"}, caps \in BOOLEAN :
          sys = Sys(f, "core16", conf, mode, caps, TRUE)
    /\ \E cr \in StartCreds, i \in Inputs, c \in BOOLEAN, b \in BaseSnaps, n \in BOOLEAN :
          /\ ids = [p \in Procs |-> IF p = "p1" THEN cr ELSE NoCreds]
          /\ args = [p \in Procs |-> IF p = "p1" THEN Args("snap_a", i, c, b, n, cr)
                                     ELSE Args("snap_a", "ok", FALSE, "core", FALSE, NoCreds)]
    /\ \E tmp \in TmpValues :
          env = [p \in Procs |-> [PATH |-> HostPath, TMPDIR |-> tmp, TEMPDIR |-> "unset"]]

\* one step of launch p through main()
Step(p) ==
    \/ main_validate(p)
    \/ main_getresid(p)
    \/ main_initial_drop(p)
    \/ main_root_check(p)
    \/ main_apparmor(p)
    \/ main_dispatch(p)
    \/ enter_classic_execution_environment(p)
    \/ sc_reassociate_with_pid1_mount_ns(p)
    \/ sc_lock_global(p)
    \/ sc_ensure_shared_snap_mount(p)
    \/ sc_initialize_mount_ns(p)
    \/ sc_unlock_global(p)
    \/ sc_open_helpers(p)
    \/ sc_lock_snap(p)
    \/ sc_classify(p)
    \/ sc_fork_helper(p)
    \/ sc_join_preserved_ns(p)
    \/ unshare_per_snap(p)
    \/ sc_populate_mount_ns(p)
    \/ sc_preserve_populated_mount_ns(p)
    \/ sc_maybe_fixup(p)
    \/ sc_join_preserved_per_user_ns(p)
    \/ unshare_per_user(p)
    \/ sc_setup_user_mounts(p)
    \/ sc_preserve_populated_per_user_mount_ns(p)
    \/ raise_egid(p)
    \/ sc_cgroup_freezer_join(p)
    \/ lower_egid(p)
    \/ sc_unlock_snap(p)
    \/ sc_close_mount_ns(p)
    \/ reset_env(p)
    \/ setup_devices_cgroup(p)
    \/ temp_setegid(p)
    \/ temp_seteuid(p)
    \/ temp_verify(p)
    \/ setup_user_data(p)
    \/ sc_maybe_aa_change_onexec(p)
    \/ sc_apply_seccomp_profile(p)
    \/ final_setgid(p)
    \/ final_setuid(p)
    \/ final_verify(p)
    \/ main_execv(p)

Next ==
    \/ \E p \in Procs : Step(p) \/ die(p)
    \/ \E s \in Snaps : make_stale(s)

Spec == Init /\ [][Next]_vars

OneSpec == InitOne /\ [][Next]_vars

\* Two concurrent launches as in Init, the first by a non-root invoker and
\* the second by root.
InitFair == Init /\ ids["p1"].ruid # Root /\ ids["p2"].ruid = Root

\* A scheduler that lets every launch that can take a step take one in the
\* end; a launch waiting for a lock can take none.  Nothing obliges a
\* launch to die or a namespace to turn stale.
FairSpec == InitFair /\ [][Next]_vars /\ \A p \in Procs : WF_vars(Step(p))

\* ================================================================ claims
NonClassic(p) == Logged(p, "reassociate")
SameSnap(p, q) == args[p].snap_instance = args[q].snap_instance
\* launch p is through the join-or-construct-and-preserve sequence
Through(p) == Logged(p, "fixups")
Constructed(p) == Logged(p, "unshare") /\ Logged(p, "populate") /\ Logged(p, "preserve")
ConstructedNothing(p) == ~Logged(p, "unshare") /\ ~Logged(p, "populate") /\ ~Logged(p, "preserve")
ConstructsAndJoins(p, q) == /\ Constructed(p)
                            /\ loc[p].retval = "ESRCH"
                            /\ loc[q].retval = "joined"
                            /\ ConstructedNothing(q)

\* C1: of two concurrent non-classic launches of the same snap that both get
\* through the sequence, with no namespace preserved at the start and none
\* turned stale meanwhile, exactly one unshares, populates and preserves; the
\* join of the other returns "joined" and it constructs nothing.
C1_ExactlyOneConstructs ==
    \A p, q \in Procs :
        (/\ p # q
         /\ SameSnap(p, q)
         /\ NonClassic(p) /\ NonClassic(q)
         /\ Through(p) /\ Through(q)
         /\ stale = 0)
        => /\ ConstructsAndJoins(p, q) \/ ConstructsAndJoins(q, p)
           /\ ~(Constructed(p) /\ Constructed(q))

C1_Witness ==
    /\ SameSnap("p1", "p2")
    /\ Through("p1") /\ Through("p2")
    /\ stale = 0
    /\ ConstructsAndJoins("p2", "p1")

InSequence(p) == pc[p] \in {"join", "unshare", "populate", "preserve"}

\* C3: a launch inside the join-or-construct-and-preserve sequence holds the
\* lock of its snap, in every state of the sequence, and no other launch of
\* that snap is inside the sequence at the same time.
C3_LockHeldAcrossSequence ==
    \A p \in Procs :
        InSequence(p) =>
            /\ snap_lock[args[p].snap_instance] = p
            /\ \A q \in Procs \ {p} : SameSnap(p, q) => ~InSequence(q)

C3_Witness ==
    /\ SameSnap("p1", "p2")
    /\ pc["p1"] = "unshare"
    /\ loc["p1"].retval = "ESRCH"
    /\ pc["p2"] = "lock_snap"

\* C4: a preserved (or since stale) namespace was unshared and populated by
\* the launch that preserved it, before it preserved it; a launch that died
\* during construction has preserved nothing; no launch is in a namespace
\* it joined half-built.
C4_PreservedIsComplete ==
    /\ \A s \in Snaps :
          ns[s].state # "absent" =>
              /\ ns[s].populated
              /\ ns[s].by \in Procs
              /\ Before(ns[s].by, "unshare", "populate")
              /\ Before(ns[s].by, "populate", "preserve")
    /\ \A p \in Procs :
          /\ mnt[p] # "snap_half_built"
          /\ (pc[p] = "dead" /\ Logged(p, "unshare") /\ ~Logged(p, "preserve"))
                => \A s \in Snaps : ns[s].by # p

C4_Witness ==
    /\ pc["p1"] = "dead"
    /\ Logged("p1", "unshare")
    /\ ~Logged("p1", "preserve")
    /\ SameSnap("p1", "p2")
    /\ ns["snap_a"].state = "preserved"
    /\ ns["snap_a"].by = "p2"

\* the process exit status: 0 after the version query, 1 after die() and
\* after a failed execv; a process that was replaced by execv has none
ExitStatus(p) == IF pc[p] = "exit0" THEN 0
                 ELSE IF pc[p] \in {"dead", "exit1"} THEN 1
                 ELSE -1

AllReal(c, real_uid, real_gid) ==
    /\ c.ruid = real_uid /\ c.euid = real_uid /\ c.suid = real_uid
    /\ c.rgid = real_gid /\ c.egid = real_gid /\ c.sgid = real_gid

\* C2: whenever execv is called, the real, effective and saved uid are the
\* real uid captured at start and the real, effective and saved gid are the
\* real gid captured at start.
C2_HandoffCredsAreReal ==
    \A p \in Procs :
        pc[p] = "exec" => AllReal(loc[p].exec_creds, loc[p].real_uid, loc[p].real_gid)

\* the launch entered the branch of main() for effective uid root
Privileged(p) == Logged(p, "temp_setegid")

\* C5: a privileged launch that reaches execv has done, in this order: the
\* temporary drop (setegid, then seteuid), the AppArmor change-on-exec, the
\* seccomp profiles, the permanent drop (setgid, then setuid), execv.
C5_TransitionOrder ==
    \A p \in Procs :
        (pc[p] = "exec" /\ Privileged(p)) =>
            /\ Before(p, "temp_setegid", "temp_seteuid")
            /\ Before(p, "temp_seteuid", "aa_change_onexec")
            /\ Before(p, "aa_change_onexec", "seccomp")
            /\ Before(p, "seccomp", "final_setgid")
            /\ Before(p, "final_setgid", "final_setuid")
            /\ Before(p, "final_setuid", "execv")

\* a real or effective id is root although the invoker's own is not
Residual(c, real_uid, real_gid) ==
    \/ real_uid # Root /\ (c.ruid = Root \/ c.euid = Root)
    \/ real_gid # Root /\ (c.rgid = Root \/ c.egid = Root)

\* C6: a launch that has passed the check after a drop holds no real or
\* effective id of root that the invoker does not have, and no launch of an
\* invoker whose real uid and real gid are both not root calls execv with a
\* real or effective uid or gid of root.
C6_ResidualPrivilegeIsFatal ==
    \A p \in Procs :
        /\ (Logged(p, "temp_verified") \/ Logged(p, "final_verified"))
              => ~Residual(ids[p], loc[p].real_uid, loc[p].real_gid)
        /\ (pc[p] = "exec" /\ loc[p].real_uid # Root /\ loc[p].real_gid # Root)
              => /\ loc[p].exec_creds.ruid # Root /\ loc[p].exec_creds.euid # Root
                 /\ loc[p].exec_creds.rgid # Root /\ loc[p].exec_creds.egid # Root

C6_Witness ==
    /\ pc["p1"] = "exec"
    /\ Logged("p1", "temp_verified")
    /\ args["p1"].start_creds.euid = Root
    /\ args["p1"].start_creds.egid = Root
    /\ loc["p1"].real_uid # Root
    /\ loc["p1"].real_gid # Root

InvalidInputs == {"no_instance", "bad_instance", "bad_tag", "bad_base"}

\* C7: a launch whose SNAP_INSTANCE_NAME is absent or malformed, whose
\* security tag is not allowed or whose base snap name is invalid ends in
\* die() with exit status 1 as its first and only step: it holds no lock, is
\* in its initial mount namespace, has forked no helper, has its initial
\* credentials, is in no freezer group and has registered no namespace.
C7_InvalidInputDiesFirst ==
    \A p \in Procs :
        args[p].input \in InvalidInputs =>
            /\ pc[p] \in {"start", "dead"}
            /\ pc[p] = "dead" => ExitStatus(p) = 1 /\ log[p] = <<"die">>
            /\ pc[p] = "start" => log[p] = <<>>
            /\ global_lock # p
            /\ \A s \in Snaps : snap_lock[s] # p /\ ns[s].by # p /\ p \notin freezer[s]
            /\ mnt[p] = "initial"
            /\ ~helper[p]
            /\ ids[p] = args[p].start_creds

C7_Witness ==
    /\ args["p1"].input = "bad_tag"
    /\ args["p1"].start_creds.euid = Root
    /\ pc["p1"] = "dead"

KeyEvents == {"lock_global", "unlock_global", "lock_snap", "unlock_snap",
              "join_ok", "unshare", "populate", "preserve",
              "user_join_ok", "user_unshare", "user_setup_mounts", "user_preserve",
              "freezer_join", "temp_setegid", "temp_seteuid", "execv"}
IsKeyEvent(e) == e \in KeyEvents
Key(p) == SelectSeq(log[p], IsKeyEvent)

ExpectedFreshLaunch ==
    <<"lock_global", "unlock_global", "lock_snap", "unshare", "populate", "preserve",
      "user_unshare", "user_setup_mounts">>
    \o (IF sys.per_user_mount_namespace THEN <<"user_preserve">> ELSE <<>>)
    \o <<"freezer_join", "unlock_snap", "temp_setegid", "temp_seteuid", "execv">>

FreshNonRootLaunch(p) ==
    /\ pc[p] = "exec"
    /\ NonClassic(p)
    /\ loc[p].real_uid # Root
    /\ loc[p].retval = "ESRCH"

\* C8: a non-classic launch by a non-root user that found no preserved
\* namespace and reached execv did exactly this, in this order: global lock
\* taken and released, per-snap lock taken, unshare, populate, preserve,
\* per-user unshare and mounts, per-user preserve exactly when the feature
\* flag is on, freezer join, (per-snap lock released,) effective gid and uid
\* dropped to the invoker's, execv.
C8_FreshLaunchOrder ==
    \A p \in Procs :
        FreshNonRootLaunch(p) =>
            /\ Key(p) = ExpectedFreshLaunch
            /\ loc[p].exec_creds.euid = loc[p].real_uid
            /\ loc[p].exec_creds.egid = loc[p].real_gid

C8_Witness ==
    /\ FreshNonRootLaunch("p1")
    /\ sys.per_user_mount_namespace
    /\ Logged("p1", "user_preserve")

\* C9: a launch has unshared, populated or preserved the per-snap namespace
\* only if its join returned ESRCH; one whose join returned ESRCH goes on to
\* unshare, populate and preserve, holding the per-snap lock it took before
\* the join; one whose join succeeded constructs nothing.
C9_NotFoundIsRecoverable ==
    \A p \in Procs :
        /\ loc[p].retval # "ESRCH" => ConstructedNothing(p)
        /\ (loc[p].retval = "ESRCH" /\ Live(p) /\ ~Through(p)) =>
              /\ pc[p] \in {"unshare", "populate", "preserve", "fixups"}
              /\ pc[p] = "fixups" => Constructed(p)
              /\ snap_lock[args[p].snap_instance] = p
              /\ Count(p, "lock_snap") = 1
              /\ ~Logged(p, "unlock_snap")
        /\ (loc[p].retval = "ESRCH" /\ Through(p)) =>
              /\ Before(p, "join_esrch", "unshare")
              /\ Before(p, "unshare", "populate")
              /\ Before(p, "populate", "preserve")
              /\ Before(p, "preserve", "fixups")

C9_Witness ==
    /\ loc["p1"].retval = "ESRCH" /\ Through("p1")
    /\ loc["p2"].retval = "joined" /\ Through("p2")
    /\ SameSnap("p1", "p2")

PerUserDone(p) == Logged(p, "freezer_join")

\* C10: a per-user namespace is preserved only with the feature flag on;
\* with the flag off no per-user namespace is registered, no per-user join
\* succeeds, and every non-classic launch by a non-root user gets ESRCH from
\* the per-user join and unshares and sets up a per-user namespace of its own.
C10_PerUserPreservedOnlyWithFlag ==
    /\ \A p \in Procs : Logged(p, "user_preserve") => sys.per_user_mount_namespace
    /\ ~sys.per_user_mount_namespace =>
          /\ user_ns = {}
          /\ \A p \in Procs :
                /\ loc[p].retval_user # "joined"
                /\ (NonClassic(p) /\ loc[p].real_uid # Root /\ PerUserDone(p)) =>
                      /\ loc[p].retval_user = "ESRCH"
                      /\ Before(p, "user_join_esrch", "user_unshare")
                      /\ Before(p, "user_unshare", "user_setup_mounts")
                      /\ mnt[p] = "user_populated"

C10_Witness ==
    /\ ~sys.per_user_mount_namespace
    /\ SameSnap("p1", "p2")
    /\ ids["p1"].ruid = ids["p2"].ruid
    /\ loc["p1"].real_uid # Root
    /\ PerUserDone("p1") /\ PerUserDone("p2")
    /\ Logged("p1", "user_not_preserve") /\ Logged("p2", "user_not_preserve")

\* ---------------------------------------------------------------- C11
\* lines 289-291: the launch is between sc_lock_global and sc_unlock
InGlobalSection(p) == pc[p] \in {"ensure_shared", "init_mount_ns", "unlock_global"}

HostReady == host.snap_mount_shared /\ host.ns_dir_private

\* C11: a launch is inside the shared-propagation fixup and the
\* namespace-directory initialization only while it holds the global lock,
\* no two launches are inside it at once, and once one launch has been
\* through it every further pass leaves the host set up as it was.
C11_GlobalSectionExclusive ==
    /\ \A p \in Procs : InGlobalSection(p) => global_lock = p
    /\ \A p, q \in Procs : InGlobalSection(p) /\ InGlobalSection(q) => p = q
    /\ (\E p \in Procs : Logged(p, "init_mount_ns")) => HostReady

C11_Witness ==
    /\ Logged("p2", "unlock_global")
    /\ pc["p1"] = "unlock_global"
    /\ pc["p2"] = "lock_snap"
    /\ HostReady

\* ---------------------------------------------------------------- C12
HoldsGlobal(p) == global_lock = p
HoldsSnap(p) == \E s \in Snaps : snap_lock[s] = p

\* the launch gave the lock up by ending while it held it
EndedHolding(p, lock, unlock) ==
    pc[p] \in Terminal /\ Logged(p, lock) /\ ~Logged(p, unlock)

\* C12: a launch holds a lock only between acquiring it and giving it up,
\* an explicit unlock is made by the holder and at most once per
\* acquisition, and a launch that has handed off or exited holds no lock:
\* each lock it acquired was given up either by its one explicit unlock or
\* by the end of the process.
C12_LocksReleasedOnce ==
    \A p \in Procs :
        /\ HoldsGlobal(p) => Logged(p, "lock_global") /\ ~Logged(p, "unlock_global")
        /\ HoldsSnap(p) => /\ Logged(p, "lock_snap") /\ ~Logged(p, "unlock_snap")
                           /\ snap_lock[args[p].snap_instance] = p
        /\ pc[p] = "unlock_global" => HoldsGlobal(p)
        /\ pc[p] = "unlock_snap" => HoldsSnap(p)
        /\ pc[p] \in Terminal =>
              /\ ~HoldsGlobal(p) /\ ~HoldsSnap(p)
              /\ Count(p, "unlock_global") <= 1 /\ Count(p, "lock_global") <= 1
              /\ Count(p, "unlock_snap") <= 1 /\ Count(p, "lock_snap") <= 1
              /\ Logged(p, "unlock_global") => Before(p, "lock_global", "unlock_global")
              /\ Logged(p, "unlock_snap") => Before(p, "lock_snap", "unlock_snap")
        /\ pc[p] = "exec" /\ NonClassic(p) =>
              Logged(p, "unlock_global") /\ Logged(p, "unlock_snap")

\* one launch handed off after both explicit unlocks, the other died while
\* it held the per-snap lock
C12_Witness ==
    /\ pc["p1"] = "exec" /\ NonClassic("p1")
    /\ pc["p2"] = "dead" /\ EndedHolding("p2", "lock_snap", "unlock_snap")
    /\ snap_lock = [s \in Snaps |-> NoProc]
    /\ global_lock = NoProc

\* ---------------------------------------------------------------- C13
\* lines 387-396, 402: the values reset_env is to leave behind
FinalEnv == [PATH |-> CorePath, TMPDIR |-> "/tmp", TEMPDIR |-> "/tmp"]

\* C13: whatever TMPDIR, TEMPDIR and PATH were on entry, a launch that has
\* got past the reset of its environment has TMPDIR = /tmp, TEMPDIR = /tmp
\* and the fixed PATH of the core snap; a launch whose setenv of TMPDIR or
\* TEMPDIR failed did not get past it.
C13_EnvIsFixedAfterReset ==
    \A p \in Procs : Logged(p, "reset_env") => env[p] = FinalEnv

\* ---------------------------------------------------------------- C14
\* what enter_non_classic_execution_environment does, lines 283-410
NonClassicEvents ==
    {"reassociate", "lock_global", "ensure_shared", "init_mount_ns", "unlock_global",
     "open_helpers", "lock_snap", "classify", "fork_helper", "join_ok", "join_esrch",
     "unshare", "populate", "preserve", "fixups", "user_join_ok", "user_join_esrch",
     "user_unshare", "user_setup_mounts", "user_preserve", "user_not_preserve",
     "setegid_root", "no_setegid_root", "freezer_join", "setegid_real",
     "no_setegid_real", "unlock_snap", "close_mount_ns", "reset_env", "devices_cgroup"}

Classic(p) == args[p].classic_confinement /\ Logged(p, "validated")

\* the frame of a classic launch, and the steps of main() it still takes
C14_ClassicFrame(p) ==
    /\ done[p] \cap NonClassicEvents = {}
    /\ ~HoldsGlobal(p) /\ ~HoldsSnap(p)
    /\ ~helper[p]
    /\ mnt[p] = "initial"
    /\ \A s \in Snaps : p \notin freezer[s]
    /\ ns[args[p].snap_instance] = NoNs
    /\ user_ns = {}
    /\ ~host.snap_mount_shared /\ ~host.ns_dir_private
    /\ pc[p] = "exec" =>
          /\ loc[p].aa_onexec /\ loc[p].seccomp
          /\ Before(p, "aa_change_onexec", "seccomp")
          /\ Before(p, "seccomp", "execv")
          /\ Logged(p, "classic_env") =>
                /\ Before(p, "classic_env", "temp_setegid")
                /\ Before(p, "temp_setegid", "temp_seteuid")
                /\ Before(p, "temp_seteuid", "temp_verified")
                /\ Before(p, "temp_verified", "aa_change_onexec")

\* the permanent drop, lines 241-245, made between seccomp and execv
PermanentDropMade(p) ==
    /\ Before(p, "seccomp", "final_setgid")
    /\ Before(p, "final_setgid", "final_setuid")
    /\ Before(p, "final_setuid", "final_verified")
    /\ Before(p, "final_verified", "execv")

\* C14: a classic launch takes neither lock, forks no helper, joins, builds
\* and preserves no mount namespace and joins no freezer and no device
\* cgroup; one that started privileged still makes the whole privilege drop
\* sequence, the temporary drop before and the permanent drop after the
\* AppArmor and seccomp profiles are applied, before execv.
C14_ClassicTouchesNothing ==
    \A p \in Procs :
        Classic(p) =>
            /\ C14_ClassicFrame(p)
            /\ pc[p] = "exec" /\ Logged(p, "classic_env") => PermanentDropMade(p)

\* ---------------------------------------------------------------- C15
\* lines 212-213 and 241-242: the drop steps main() makes after the
\* execution environment is set up
DropSteps == {"temp_setegid", "temp_seteuid", "final_setgid", "final_setuid"}

TempDropAsIntended(p) ==
    ids[p].euid = loc[p].real_uid /\ ids[p].egid = loc[p].real_gid

\* the ids the permanent drop is to leave: real and effective ids of the
\* invoker
PermanentDropAsIntended(p) ==
    /\ ids[p].ruid = loc[p].real_uid /\ ids[p].euid = loc[p].real_uid
    /\ ids[p].rgid = loc[p].real_gid /\ ids[p].egid = loc[p].real_gid

\* C16: for every real uid and real gid, root or not, the check after the
\* temporary drop lets the launch go on when its effective uid and gid are
\* those of the invoker and ends it otherwise, and likewise the check after
\* the permanent drop: a launch whose ids are as intended is never ended by
\* a check.
C16_VerificationFatalExactlyOnMismatch ==
    \A p \in Procs :
        /\ Logged(p, "die_temp_drop") => ~TempDropAsIntended(p)
        /\ Logged(p, "temp_verified") /\ pc[p] = "setup_user_data" => TempDropAsIntended(p)
        /\ Logged(p, "die_permanent_drop") => ~PermanentDropAsIntended(p)
        /\ Logged(p, "final_verified") /\ pc[p] = "execv" => PermanentDropAsIntended(p)

\* ---------------------------------------------------------------- C17
\* lines 315-329: the steps by which a launch changes its mount namespace
TransformEvents == {"fork_helper", "join_ok", "join_esrch", "unshare", "populate", "preserve"}

\* C17: a non-classic launch probes for normal or legacy mode before it
\* forks its helper, tries to join and unshares; until then it has no
\* helper and has neither joined nor built a namespace; the result is
\* taken once and is from then on what the probe of the same distribution
\* and base gives again.
C17_ClassifiedBeforeTransform ==
    \A p \in Procs :
        /\ ~Logged(p, "classify") =>
              /\ ~helper[p]
              /\ mnt[p] \in {"initial", "pid1"}
              /\ loc[p].retval = "unset"
              /\ ~loc[p].is_normal_mode
        /\ \A e \in TransformEvents : Logged(p, e) => Before(p, "classify", e)
        /\ Logged(p, "classify") =>
              /\ Count(p, "classify") = 1
              /\ loc[p].is_normal_mode =
                     sc_should_use_normal_mode(sys.distro, args[p].base_snap_name)

C17_Witness ==
    /\ pc["p1"] = "exec"
    /\ Logged("p1", "preserve")
    /\ ~loc["p1"].is_normal_mode
    /\ args["p1"].base_snap_name = "core"

\* ---------------------------------------------------------------- C18
InFreezerOf(p, s) == p \in freezer[s]

\* C18: a non-classic launch that reaches execv has joined the freezer
\* group of its snap, and of no other snap, exactly once, after it took the
\* per-snap lock and before it gave the lock up; from the join until the
\* unlock it is in the group and holds the lock; launches of the same snap
\* are in the same group.
C18_FreezerJoinedUnderLock ==
    \A p \in Procs :
        LET s == args[p].snap_instance
        IN /\ pc[p] \in {"lower_egid", "unlock_snap"} =>
                 snap_lock[s] = p /\ InFreezerOf(p, s)
           /\ pc[p] = "exec" /\ NonClassic(p) =>
                 /\ Count(p, "freezer_join") = 1
                 /\ Before(p, "lock_snap", "freezer_join")
                 /\ Before(p, "freezer_join", "unlock_snap")
                 /\ InFreezerOf(p, s)
                 /\ \A t \in Snaps \ {s} : ~InFreezerOf(p, t)

C18_Witness ==
    /\ \A p \in Procs : pc[p] = "exec" /\ NonClassic(p)
    /\ SameSnap("p1", "p2")
    /\ freezer["snap_a"] = Procs

\* ---------------------------------------------------------------- C19
AllTerminated == \A p \in Procs : pc[p] \in Terminal

\* C19: under fair scheduling every launch of a set of concurrent launches
\* ends, by execv or by exit; in no state does a launch hold the global
\* lock and a per-snap lock together, and a lock is never held by a launch
\* that has ended.
C19_EveryLaunchTerminates ==
    /\ [](\A p \in Procs : /\ ~(HoldsGlobal(p) /\ HoldsSnap(p))
                           /\ pc[p] \in Terminal => ~HoldsGlobal(p) /\ ~HoldsSnap(p))
    /\ <>[]AllTerminated

\* one launch died while it held the per-snap lock, and the other launch
\* of the same snap took the lock after it, built the namespace and
\* reached execv
C19_Witness ==
    /\ pc["p2"] = "dead" /\ EndedHolding("p2", "lock_snap", "unlock_snap")
    /\ SameSnap("p1", "p2")
    /\ pc["p1"] = "exec" /\ Constructed("p1")
    /\ ns["snap_a"].by = "p1"

\* ---------------------------------------------------------------- C20
\* a launch by the setgid root binary whose invoker has a real gid other
\* than root, past the initial drop of lines 158-162 and not ended by exit
SetgidNonRootGroup(p) ==
    /\ args[p].start_creds.egid = Root
    /\ args[p].start_creds.rgid # Root
    /\ Logged(p, "setegid_start")
    /\ pc[p] \notin {"dead", "exit0", "exit1", "absent"}

\* lines 366-372: between the raise for the freezer and the lowering
InFreezerWindow(p) == pc[p] \in {"freezer_join", "lower_egid"}

\* C20: for a setgid root launch whose real gid is not root the effective
\* gid is the real gid in every state from the initial drop up to and
\* including the hand-off, except between the raise before
\* sc_cgroup_freezer_join and the lowering after it; there it is 0 only
\* when the saved gid is 0 and the launch raised it, and it is the real gid
\* again when the per-snap lock is given up.
C20_EgidIsRealOutsideFreezerWindow ==
    \A p \in Procs :
        SetgidNonRootGroup(p) =>
            IF InFreezerWindow(p)
            THEN /\ ids[p].egid \in {Root, loc[p].real_gid}
                 /\ ids[p].egid = Root =>
                       /\ loc[p].saved_gid = Root
                       /\ Logged(p, "setegid_root")
                       /\ HoldsSnap(p)
            ELSE ids[p].egid = loc[p].real_gid

C20_Witness ==
    /\ SetgidNonRootGroup("p1")
    /\ pc["p1"] = "unlock_snap"
    /\ Logged("p1", "setegid_root")
    /\ Logged("p1", "setegid_real")
    /\ ids["p1"].egid = loc["p1"].real_gid
    /\ ids["p1"].sgid = Root

====
